---- MODULE Spec2Model ----
(***************************************************************************)
(* A model of comet-multi's multi-debrid availability aggregation          *)
(* (comet/services/debrid.py, MultiDebridService) and of its download-link *)
(* cache (comet/api/endpoints/playback.py).                                *)
(*                                                                         *)
(* Python values are modelled as follows.  None is the string "None"; the  *)
(* scalar fields that may be None (season, episode, index, title, size,    *)
(* quality) are strings, since the code only tests them against None,      *)
(* compares them for equality and copies them.  A dict is a function whose *)
(* DOMAIN is its key set, so `key in d` is `key \in DOMAIN d`.  A          *)
(* ParsedData object is a record; a `parsed` of None is NoParsed.          *)
(***************************************************************************)
EXTENDS Integers, Sequences, FiniteSets, TLC

\* ------------------------------------------------------------------------
\* Bounds and input domains
\* ------------------------------------------------------------------------

\* The longest availability list one provider returns.
MaxFiles == 2

NULL == "None"

NoParsed == [none |-> TRUE]

\* The torrents of one request, as the scraper hands them over: no "cached"
\* and no "cached_services" key yet.  h1 carries a quality, h2 does not.
InitialTorrents ==
    [h \in {"h1", "h2"} |->
        IF h = "h1"
        THEN [title |-> "t1", size |-> "1", fileIndex |-> NULL,
              parsed |-> [quality |-> "HDTV", resolution |-> "unknown"]]
        ELSE [title |-> "t2", size |-> "2", fileIndex |-> NULL,
              parsed |-> [quality |-> NULL, resolution |-> "1080p"]]]

\* The availability records a provider may report.  Between them: two records
\* of h1 with different non-None index and title, a record with None season
\* and episode, one that a movie request skips for its season and one that it
\* skips for its episode alone, a parsed of None, a parsed without a quality,
\* a parsed with one, and an info hash that is not among the torrents.
Files ==
    { [info_hash |-> "h1", season |-> NULL, episode |-> NULL,
       parsed |-> [quality |-> "WEB", resolution |-> "720p"],
       index |-> "0", title |-> "a", size |-> "10"],
      [info_hash |-> "h1", season |-> "1", episode |-> "1",
       parsed |-> [quality |-> NULL, resolution |-> "1080p"],
       index |-> "1", title |-> "b", size |-> NULL],
      [info_hash |-> "h2", season |-> NULL, episode |-> "1",
       parsed |-> NoParsed,
       index |-> NULL, title |-> NULL, size |-> "20"],
      [info_hash |-> "h3", season |-> NULL, episode |-> NULL,
       parsed |-> [quality |-> "BluRay", resolution |-> "2160p"],
       index |-> "3", title |-> "d", size |-> "40"] }

\* The (season, episode) a caller asks for: an episode of a series, or a movie.
Requests ==
    { [season |-> "1", episode |-> "1"], [season |-> NULL, episode |-> NULL] }

\* The lists of up to MaxFiles records, no record twice in a list.
FileLists ==
    UNION { { a \in [1..n -> Files] : \A x, y \in 1..n : a[x] = a[y] => x = y } :
              n \in 0..MaxFiles }

\* What one call of retrieve_debrid_availability does for a provider: it
\* raises, or it returns a list of records.
Behaviours ==
    { [raises |-> TRUE, availability |-> << >>] } \cup
    { [raises |-> FALSE, availability |-> a] : a \in FileLists }

NoRequest == [season |-> "-", episode |-> "-"]

Silent == [raises |-> FALSE, availability |-> << >>]

\* The provider lists a MultiDebridService is built with (the service of each
\* DebridConfig): two remote providers around the local-only "torrent", one
\* provider, one provider listed twice, only "torrent", and none.
ConfigLists ==
    { << "realdebrid", "torrent", "alldebrid" >>,
      << "realdebrid" >>,
      << "realdebrid", "realdebrid" >>,
      << "torrent" >>,
      << >> }

ServiceNames == { "realdebrid", "alldebrid" }

VARIABLES
    debrid_configs, \* MultiDebridService.debrid_configs (the service names)
    response,       \* the environment: each provider's behaviour when asked
    torrents,       \* the torrents dict of the request
    torrents0,      \* torrents as they were when the running call started
    pc,             \* position of get_and_cache_availability_all
    request,        \* the call's season and episode arguments
    prev_request,   \* the arguments of the call before it, NoRequest if none
    results,        \* gather's result list, one (service_name, availability) per task
    pending,        \* indexes of the check_service tasks still in flight
    arrival,        \* the order in which the tasks completed
    i,              \* index of the result being processed (line 200)
    j,              \* index of the file being processed (line 209)
    cache_tasks,    \* cache_availability tasks created and not yet run
    download_links_cache, \* the rows of the download_links_cache table
    now,            \* time.time()
    ticks,          \* how often the clock has advanced
    reqs,           \* the playback requests being served, by request slot
    rank_torrents,  \* rank_worker: the items of its torrents dict, in order
    policy,         \* rank_worker: its other arguments
    rank_pc,        \* rank_worker: position
    rank_k,         \* rank_worker: index of the item of `for ... in torrents.items()`
    ranked_torrents, \* rank_worker: the set ranked_torrents
    rank_out,       \* rank_worker: the keys of the dict it returns, in order
    lang_call,      \* check_required_languages: the arguments of a call
    lang_result,    \* check_required_languages: what the call returned
    norm_config,    \* normalize_debrid_config: the config dict it works on
    norm_first,     \* the config as the first application left it
    norm_pc,        \* how often normalize_debrid_config was applied
    norm_raised     \* whether the last application ended with an exception

aggVars ==
    << debrid_configs, response, torrents, torrents0, pc, request, prev_request,
       results, pending, arrival, i, j, cache_tasks >>

playVars == << download_links_cache, now, ticks, reqs >>

rankVars ==
    << rank_torrents, policy, rank_pc, rank_k, ranked_torrents, rank_out,
       lang_call, lang_result >>

normVars == << norm_config, norm_first, norm_pc, norm_raised >>

vars == << aggVars, playVars, rankVars, normVars >>

\* A playback request slot that serves no request.
IdleRequest ==
    [pc |-> "idle", api_key |-> "", season |-> NULL, episode |-> NULL,
     hit |-> FALSE, download_url |-> NULL, gen_calls |-> 0, inserts |-> 0,
     aliases |-> "{}", alias_lookup |-> "none",
     outcome |-> [kind |-> "none", url |-> NULL]]

RequestSlots == { "r1", "r2" }

\* The ranking at rest, for the specifications of the other parts.
\* normalize_debrid_config not called.
NormQuiet ==
    /\ norm_config = "none"
    /\ norm_first = "none"
    /\ norm_pc = "idle"
    /\ norm_raised = FALSE

RankQuiet ==
    /\ rank_torrents = << >>
    /\ policy = "none"
    /\ rank_pc = "idle"
    /\ rank_k = 1
    /\ ranked_torrents = {}
    /\ rank_out = << >>
    /\ lang_call = "none"
    /\ lang_result = "none"

\* The playback endpoints at rest, for the specification of the aggregation.
PlayQuiet ==
    /\ download_links_cache = {}
    /\ now = 0
    /\ ticks = 0
    /\ reqs = [r \in RequestSlots |-> IdleRequest]

\* ------------------------------------------------------------------------
\* MultiDebridService
\* ------------------------------------------------------------------------

\* Mutant of IsRemote: no provider is left out.
IsRemoteAlways(service) == TRUE

\* `cfg.service != "torrent"`
IsRemote(service) == service # "torrent"

\* self.services: one DebridService per configured provider but "torrent".
services == SelectSeq(debrid_configs, IsRemote)

get_service_names == SelectSeq(debrid_configs, IsRemote)

\* dict[key] = value
SetKey(d, key, value) ==
    [k \in DOMAIN d \cup {key} |-> IF k = key THEN value ELSE d[k]]

\* service_name not in list
Contains(list, x) == \E k \in 1..Len(list) : list[k] = x

\* Mutant of Skipped: the episode is not looked at.
SkippedBySeasonOnly(file, season, episode) ==
    file.season # NULL /\ file.season # season

\* The season/episode test that skips a record.
Skipped(file, season, episode) ==
    \/ file.season # NULL /\ file.season # season
    \/ file.episode # NULL /\ file.episode # episode

\* Mutant of PatchedParsed: the provider's quality is always overridden.
PatchedParsedAlways(debrid_parsed, torrent) ==
    [debrid_parsed EXCEPT !.quality = torrent.parsed.quality]

\* debrid_parsed after the quality fallback.
PatchedParsed(debrid_parsed, torrent) ==
    IF debrid_parsed.quality = NULL /\ torrent.parsed.quality # NULL
    THEN [debrid_parsed EXCEPT !.quality = torrent.parsed.quality]
    ELSE debrid_parsed

\* The record as the loop body leaves it: file["parsed"] is the object whose
\* quality the fallback assigns.
FileAfterMerge(ts, file, season, episode) ==
    IF \/ Skipped(file, season, episode)
       \/ file.info_hash \notin DOMAIN ts
       \/ file.parsed = NoParsed
    THEN file
    ELSE [file EXCEPT !.parsed = PatchedParsed(file.parsed, ts[file.info_hash])]

\* Mutant of AddService: the membership test is missing.
AddServiceUnchecked(cached_services, service_name) ==
    Append(cached_services, service_name)

AddService(cached_services, service_name) ==
    IF Contains(cached_services, service_name)
    THEN cached_services
    ELSE Append(cached_services, service_name)

SetIfNotNone(torrent, key, value) ==
    IF value # NULL THEN SetKey(torrent, key, value) ELSE torrent

SetParsed(torrent, debrid_parsed) ==
    IF debrid_parsed # NoParsed
    THEN SetKey(torrent, "parsed", PatchedParsed(debrid_parsed, torrent))
    ELSE torrent

\* One torrent after one matching record of service_name.
MergeTorrent(torrent, service_name, file) ==
    LET t1 == SetKey(torrent, "cached", TRUE)
        t2 == SetKey(t1, "cached_services",
                     AddService(t1.cached_services, service_name))
        t3 == SetParsed(t2, file.parsed)
        t4 == SetIfNotNone(t3, "fileIndex", file.index)
        t5 == SetIfNotNone(t4, "title", file.title)
    IN  SetIfNotNone(t5, "size", file.size)

\* The body of `for file in availability`: the torrents after one record.
MergeFile(ts, service_name, file, season, episode) ==
    IF Skipped(file, season, episode) \/ file.info_hash \notin DOMAIN ts
    THEN ts
    ELSE [ts EXCEPT ![file.info_hash] =
              MergeTorrent(ts[file.info_hash], service_name, file)]

\* `torrents[info_hash]["cached_services"] = []` where the key is missing.
InitCachedServices(ts) ==
    [h \in DOMAIN ts |->
        IF "cached_services" \in DOMAIN ts[h]
        THEN ts[h]
        ELSE SetKey(ts[h], "cached_services", << >>)]

\* What check_service returns for a provider: its name with the availability
\* list, or with [] when retrieve_debrid_availability raised.
CheckServiceResult(service_name) ==
    [service_name |-> service_name,
     availability |-> IF response[service_name].raises
                      THEN << >>
                      ELSE response[service_name].availability]

\* Mutant of ResultSlot: the results are kept in completion order.
ResultSlotByArrival(k) == Len(arrival) + 1

\* gather returns the results in the order of the tasks, whatever the order
\* in which they complete: task k's result is results[k].
ResultSlot(k) == k

InitAgg ==
    /\ debrid_configs \in ConfigLists
    /\ response \in
         { f \in [ServiceNames -> Behaviours] :
             \A s \in ServiceNames :
                 ~Contains(debrid_configs, s) => f[s] = Silent }
    /\ torrents = InitialTorrents
    /\ torrents0 = InitialTorrents
    /\ pc = "idle"
    /\ request = NoRequest
    /\ prev_request = NoRequest
    /\ results = << >>
    /\ pending = {}
    /\ arrival = << >>
    /\ i = 1
    /\ j = 1
    /\ cache_tasks = {}
    /\ PlayQuiet
    /\ RankQuiet
    /\ NormQuiet

\* No call of the service is running: none was made yet, or the last one has
\* returned.
AtRest == pc \in { "idle", "done", "checked" }

\* get_and_cache_availability_all with no remote provider: returns at once.
CallNoServices(req) ==
    /\ AtRest
    /\ cache_tasks = {}
    /\ services = << >>
    /\ pc' = "done"
    /\ request' = req
    /\ prev_request' = request
    /\ torrents0' = torrents
    /\ results' = << >>
    /\ arrival' = << >>
    /\ UNCHANGED << normVars, rankVars, playVars, debrid_configs, response, torrents, pending, i, j, cache_tasks >>

\* get_and_cache_availability_all up to the await of gather: cached_services
\* is initialised and one check_service task per remote provider is created.
CallStart(req) ==
    /\ AtRest
    /\ cache_tasks = {}
    /\ services # << >>
    /\ request' = req
    /\ prev_request' = request
    /\ torrents0' = torrents
    /\ torrents' = InitCachedServices(torrents)
    /\ results' = [k \in 1..Len(services) |->
                      [service_name |-> services[k], availability |-> << >>]]
    /\ pending' = 1..Len(services)
    /\ arrival' = << >>
    /\ pc' = "gather"
    /\ UNCHANGED << normVars, rankVars, playVars, debrid_configs, response, i, j, cache_tasks >>

\* A check_service task whose retrieve_debrid_availability returns.
CheckServiceReturns(k) ==
    /\ pc = "gather"
    /\ k \in pending
    /\ ~response[services[k]].raises
    /\ results' = [results EXCEPT ![ResultSlot(k)] = CheckServiceResult(services[k])]
    /\ pending' = pending \ {k}
    /\ arrival' = Append(arrival, k)
    /\ UNCHANGED << normVars, rankVars, playVars, debrid_configs, response, torrents, torrents0, pc, request, prev_request,
                    i, j, cache_tasks >>

\* Mutant of CheckServiceRaises: the exception leaves the task and the tasks
\* still in flight are cancelled.
CheckServiceRaisesCancels(k) ==
    /\ pc = "gather"
    /\ k \in pending
    /\ response[services[k]].raises
    /\ pending' = {}
    /\ arrival' = Append(arrival, k)
    /\ UNCHANGED << normVars, rankVars, playVars, debrid_configs, response, torrents, torrents0, pc, request,
                    prev_request, results, i, j, cache_tasks >>

\* A check_service task whose retrieve_debrid_availability raises: the
\* exception is caught and logged, the task returns (service_name, []).
CheckServiceRaises(k) ==
    /\ pc = "gather"
    /\ k \in pending
    /\ response[services[k]].raises
    /\ results' = [results EXCEPT ![ResultSlot(k)] = CheckServiceResult(services[k])]
    /\ pending' = pending \ {k}
    /\ arrival' = Append(arrival, k)
    /\ UNCHANGED << normVars, rankVars, playVars, debrid_configs, response, torrents, torrents0, pc, request, prev_request,
                    i, j, cache_tasks >>

\* Mutant of GatherReturns: the caller resumes with the first completed task.
GatherReturnsOnFirst ==
    /\ pc = "gather"
    /\ arrival # << >> \/ pending = {}
    /\ pc' = "merge"
    /\ i' = 1
    /\ j' = 1
    /\ UNCHANGED << normVars, rankVars, playVars, debrid_configs, response, torrents, torrents0, request, prev_request,
                    results, pending, arrival, cache_tasks >>

\* gather resumes the caller once every task has completed.
GatherReturns ==
    /\ pc = "gather"
    /\ pending = {}
    /\ pc' = "merge"
    /\ i' = 1
    /\ j' = 1
    /\ UNCHANGED << normVars, rankVars, playVars, debrid_configs, response, torrents, torrents0, request, prev_request,
                    results, pending, arrival, cache_tasks >>

\* `if not availability: continue`
SkipEmptyResult ==
    /\ pc = "merge"
    /\ i <= Len(results)
    /\ results[i].availability = << >>
    /\ i' = i + 1
    /\ j' = 1
    /\ UNCHANGED << normVars, rankVars, playVars, debrid_configs, response, torrents, torrents0, pc, request, prev_request,
                    results, pending, arrival, cache_tasks >>

\* One pass of `for file in availability`.
MergeStep ==
    /\ pc = "merge"
    /\ i <= Len(results)
    /\ j <= Len(results[i].availability)
    /\ LET file == results[i].availability[j]
       IN  /\ torrents' = MergeFile(torrents, results[i].service_name, file,
                                    request.season, request.episode)
           /\ results' = [results EXCEPT ![i].availability[j] =
                             FileAfterMerge(torrents, file,
                                            request.season, request.episode)]
    /\ j' = j + 1
    /\ UNCHANGED << normVars, rankVars, playVars, debrid_configs, response, torrents0, pc, request, prev_request, pending,
                    arrival, i, cache_tasks >>

\* The task created in pass k of `for result in results`, with the arguments
\* of its cache_availability call.
CacheTask(k) ==
    [slot |-> k,
     service_name |-> results[k].service_name,
     availability |-> results[k].availability]

\* asyncio.create_task(cache_availability(service_name, availability))
ScheduleCache ==
    /\ pc = "merge"
    /\ i <= Len(results)
    /\ results[i].availability # << >>
    /\ j > Len(results[i].availability)
    /\ cache_tasks' = cache_tasks \cup {CacheTask(i)}
    /\ i' = i + 1
    /\ j' = 1
    /\ UNCHANGED << normVars, rankVars, playVars, debrid_configs, response, torrents, torrents0, pc, request, prev_request,
                    results, pending, arrival >>

\* Mutant of CallReturns: the call returns once the scheduled tasks are over.
CallReturnsAwaitsCache ==
    /\ pc = "merge"
    /\ i > Len(results)
    /\ cache_tasks = {}
    /\ pc' = "done"
    /\ UNCHANGED << normVars, rankVars, playVars, debrid_configs, response, torrents, torrents0, request, prev_request,
                    results, pending, arrival, i, j, cache_tasks >>

\* The log summary; the call returns.
CallReturns ==
    /\ pc = "merge"
    /\ i > Len(results)
    /\ pc' = "done"
    /\ UNCHANGED << normVars, rankVars, playVars, debrid_configs, response, torrents, torrents0, request, prev_request,
                    results, pending, arrival, i, j, cache_tasks >>

\* A scheduled cache_availability task runs to its end. A task made by
\* create_task starts when the event loop next runs, and the call has no
\* await after the merge: no task runs before the call has returned.
CacheTaskRuns(task) ==
    /\ pc = "done"
    /\ task \in cache_tasks
    /\ cache_tasks' = cache_tasks \ {task}
    /\ UNCHANGED << normVars, rankVars, playVars, debrid_configs, response, torrents, torrents0, pc, request, prev_request,
                    results, pending, arrival, i, j >>

\* A scheduled cache_availability task raises: nothing awaits the task, the
\* exception stays in it.
CacheTaskFails(task) ==
    /\ pc = "done"
    /\ task \in cache_tasks
    /\ cache_tasks' = cache_tasks \ {task}
    /\ UNCHANGED << normVars, rankVars, playVars, debrid_configs, response, torrents, torrents0, pc, request, prev_request,
                    results, pending, arrival, i, j >>

\* ---- check_existing_availability_all ----

\* int(row["file_index"]) on the texts tried: the integer a text denotes,
\* "ValueError" for a text that denotes none.
IntOf(text) ==
    CASE text = "1" -> "1"
      [] text = "01" -> "1"
      [] text = " 2 " -> "2"
      [] OTHER -> "ValueError"

\* Rows of the availability cache, as get_cached_availability returns them:
\* parsed is None, a JSON text of ParsedData fields, or a text orjson cannot
\* load.
CachedRows ==
    { [info_hash |-> "h1", file_index |-> "01", size |-> "11", title |-> "ra",
       parsed |-> [kind |-> "json",
                   data |-> [quality |-> "WEB", resolution |-> "720p"]]],
      [info_hash |-> "h2", file_index |-> "x", size |-> NULL, title |-> "rb",
       parsed |-> [kind |-> "json",
                   data |-> [quality |-> NULL, resolution |-> "unknown"]]],
      [info_hash |-> "h1", file_index |-> NULL, size |-> "13", title |-> NULL,
       parsed |-> [kind |-> "malformed"]],
      [info_hash |-> "h2", file_index |-> " 2 ", size |-> NULL, title |-> NULL,
       parsed |-> [kind |-> "None"]] }

\* The row lists one get_cached_availability call returns.
RowLists ==
    { r \in UNION { [1..n -> CachedRows] : n \in 0..MaxFiles } :
        \A m, n \in DOMAIN r : m # n => r[m] # r[n] }

\* Mutant of ResetCached: cached_services is left as it is.
ResetCachedFlagOnly(ts) ==
    [h \in DOMAIN ts |->
        SetKey(IF "cached_services" \in DOMAIN ts[h]
               THEN ts[h]
               ELSE SetKey(ts[h], "cached_services", << >>),
               "cached", FALSE)]

\* `torrents[hash]["cached"] = False; torrents[hash]["cached_services"] = []`
ResetCached(ts) ==
    [h \in DOMAIN ts |->
        SetKey(SetKey(ts[h], "cached", FALSE), "cached_services", << >>)]

\* `try: torrents[info_hash]["fileIndex"] = int(...) except ValueError: pass`
SetFileIndexFromRow(torrent, file_index) ==
    IF file_index # NULL /\ IntOf(file_index) # "ValueError"
    THEN SetKey(torrent, "fileIndex", IntOf(file_index))
    ELSE torrent

\* The cached parsed data replaces the torrent's, with the row's title, when
\* it has a resolution or the torrent has none.
SetParsedFromRow(torrent, row) ==
    IF row.parsed.kind = "json"
         /\ ( row.parsed.data.resolution # "unknown"
              \/ torrent.parsed.resolution = "unknown" )
    THEN SetIfNotNone(SetKey(torrent, "parsed", row.parsed.data),
                      "title", row.title)
    ELSE torrent

\* One pass of `for row in rows` up to the loading of parsed.
MergeRowBeforeParsed(torrent, service_name, row) ==
    LET marked == SetKey(SetKey(torrent, "cached", TRUE), "cached_services",
                         AddService(torrent.cached_services, service_name))
    IN  SetIfNotNone(SetFileIndexFromRow(marked, row.file_index),
                     "size", row.size)

\* One pass of `for row in rows`: the torrents after it, and whether
\* ParsedData(**orjson.loads(row["parsed"])) raised.
MergeRow(ts, service_name, row) ==
    IF row.info_hash \notin DOMAIN ts
    THEN [torrents |-> ts, raised |-> FALSE]
    ELSE [torrents |->
              [ts EXCEPT ![row.info_hash] =
                  SetParsedFromRow(
                      MergeRowBeforeParsed(ts[row.info_hash], service_name, row),
                      row)],
          raised |-> row.parsed.kind = "malformed"]

\* `for row in rows` from row k on, ending at the first row that raises.
RECURSIVE FoldRows(_, _, _, _)
FoldRows(ts, service_name, rows, k) ==
    IF k > Len(rows)
    THEN [torrents |-> ts, raised |-> FALSE]
    ELSE LET after == MergeRow(ts, service_name, rows[k])
         IN  IF after.raised
             THEN after
             ELSE FoldRows(after.torrents, service_name, rows, k + 1)

\* check_existing_availability_all with no remote provider: the torrents are
\* reset and the call returns.
ExistingNoServices(req) ==
    /\ AtRest
    /\ cache_tasks = {}
    /\ services = << >>
    /\ torrents' = ResetCached(torrents)
    /\ torrents0' = torrents
    /\ request' = req
    /\ prev_request' = NoRequest
    /\ results' = << >>
    /\ arrival' = << >>
    /\ pc' = "checked"
    /\ UNCHANGED << normVars, rankVars, playVars, debrid_configs, response, pending, i, j, cache_tasks >>

\* check_existing_availability_all up to the first get_cached_availability.
ExistingStart(req) ==
    /\ AtRest
    /\ cache_tasks = {}
    /\ services # << >>
    /\ torrents' = ResetCached(torrents)
    /\ torrents0' = torrents
    /\ request' = req
    /\ prev_request' = NoRequest
    /\ results' = << >>
    /\ arrival' = << >>
    /\ i' = 1
    /\ j' = 1
    /\ pc' = "existing"
    /\ UNCHANGED << normVars, rankVars, playVars, debrid_configs, response, pending, cache_tasks >>

\* get_cached_availability of provider i returns rows, which are merged up
\* to the first row whose parsed does not load; that exception ends the call.
ExistingLookup(rows) ==
    /\ pc = "existing"
    /\ i <= Len(services)
    /\ LET after == FoldRows(torrents, services[i], rows, 1)
       IN  /\ torrents' = after.torrents
           /\ pc' = IF after.raised THEN "raised" ELSE "existing"
           /\ i' = IF after.raised THEN i ELSE i + 1
    /\ UNCHANGED << normVars, rankVars, playVars, debrid_configs, response, torrents0, request, prev_request,
                    results, pending, arrival, j, cache_tasks >>

\* get_cached_availability of provider i raises, which ends the call.
ExistingLookupRaises ==
    /\ pc = "existing"
    /\ i <= Len(services)
    /\ pc' = "raised"
    /\ UNCHANGED << normVars, rankVars, playVars, debrid_configs, response, torrents, torrents0, request, prev_request,
                    results, pending, arrival, i, j, cache_tasks >>

\* The loop over the providers is through; the call returns.
ExistingReturns ==
    /\ pc = "existing"
    /\ i > Len(services)
    /\ pc' = "checked"
    /\ UNCHANGED << normVars, rankVars, playVars, debrid_configs, response, torrents, torrents0, request, prev_request,
                    results, pending, arrival, i, j, cache_tasks >>

\* `torrent.get("cached_services", [])`: the first name, None for an empty
\* list.
get_first_available_service(torrent) ==
    LET cached_services == IF "cached_services" \in DOMAIN torrent
                           THEN torrent.cached_services
                           ELSE << >>
    IN  IF cached_services # << >> THEN cached_services[1] ELSE NULL

NextAgg ==
    \/ \E req \in Requests : CallNoServices(req)
    \/ \E req \in Requests : CallStart(req)
    \/ \E k \in 1..Len(services) : CheckServiceReturns(k)
    \/ \E k \in 1..Len(services) : CheckServiceRaises(k)
    \/ GatherReturns
    \/ SkipEmptyResult
    \/ MergeStep
    \/ ScheduleCache
    \/ CallReturns
    \/ \E task \in cache_tasks : CacheTaskRuns(task)
    \/ \E task \in cache_tasks : CacheTaskFails(task)

SpecAgg == InitAgg /\ [][NextAgg]_vars

\* The record of Files with a title.
FileTitled(title) == CHOOSE f \in Files : f.title = title

\* The provider behaviours of the runs that mix the two calls: both providers
\* report h1, realdebrid a record of another episode too; or realdebrid
\* raises; or alldebrid has nothing.
SampleResponses ==
    { [s \in ServiceNames |->
          [raises |-> s = "realdebrid" /\ v = 2,
           availability |->
               CASE s = "realdebrid" /\ v # 2 ->
                        << FileTitled("a"), FileTitled(NULL) >>
                 [] s = "alldebrid" /\ v # 3 -> << FileTitled("b") >>
                 [] OTHER -> << >>]] : v \in 1..3 }

InitExisting ==
    /\ debrid_configs \in ConfigLists
    /\ response \in SampleResponses
    /\ torrents = InitialTorrents
    /\ torrents0 = InitialTorrents
    /\ pc = "idle"
    /\ request = NoRequest
    /\ prev_request = NoRequest
    /\ results = << >>
    /\ pending = {}
    /\ arrival = << >>
    /\ i = 1
    /\ j = 1
    /\ cache_tasks = {}
    /\ PlayQuiet
    /\ RankQuiet
    /\ NormQuiet

NextExisting ==
    \/ NextAgg
    \/ \E req \in Requests : ExistingNoServices(req)
    \/ \E req \in Requests : ExistingStart(req)
    \/ \E rows \in RowLists : ExistingLookup(rows)
    \/ ExistingLookupRaises
    \/ ExistingReturns

SpecExisting == InitExisting /\ [][NextExisting]_vars

\* ------------------------------------------------------------------------
\* The merge as a function of the provider order
\* ------------------------------------------------------------------------

\* `for file in availability` from record k on.
RECURSIVE FoldFiles(_, _, _, _, _)
FoldFiles(ts, service_name, availability, k, req) ==
    IF k > Len(availability)
    THEN ts
    ELSE FoldFiles(MergeFile(ts, service_name, availability[k],
                             req.season, req.episode),
                   service_name, availability, k + 1, req)

\* `for result in results` from result k on, the providers taken in `order`.
RECURSIVE FoldResults(_, _, _, _)
FoldResults(ts, order, k, req) ==
    IF k > Len(order)
    THEN ts
    ELSE FoldResults(FoldFiles(ts, order[k],
                               CheckServiceResult(order[k]).availability, 1, req),
                     order, k + 1, req)

\* The torrents a whole call leaves when its providers are `order`.
MergeAll(ts, order, req) ==
    IF order = << >>
    THEN ts
    ELSE FoldResults(InitCachedServices(ts), order, 1, req)

IndexPermutations(n) ==
    { p \in [1..n -> 1..n] : \A a, b \in 1..n : p[a] = p[b] => a = b }

Permuted(order, p) == [k \in 1..Len(order) |-> order[p[k]]]

Range(list) == { list[k] : k \in 1..Len(list) }

\* The record is one of the requested season and episode: each of its two
\* fields is None or the requested value.
MatchesRequest(file, req) ==
    /\ file.season \in {NULL, req.season}
    /\ file.episode \in {NULL, req.episode}

\* A provider's response holds a record of hash h that matches the request.
Reports(service_name, h, req) ==
    \E k \in 1..Len(CheckServiceResult(service_name).availability) :
        LET file == CheckServiceResult(service_name).availability[k]
        IN  file.info_hash = h /\ MatchesRequest(file, req)

StartsEmpty(ts) ==
    \A h \in DOMAIN ts :
        "cached_services" \in DOMAIN ts[h] => ts[h].cached_services = << >>

\* The cached flag of a torrent, "absent" when the key is missing.
CachedFlag(torrent) ==
    IF "cached" \in DOMAIN torrent
    THEN (IF torrent.cached THEN "True" ELSE "False")
    ELSE "absent"

\* What a torrents dict says about caching, cached_services taken as a set.
CachedView(ts) ==
    [h \in DOMAIN ts |->
        [cached |-> CachedFlag(ts[h]),
         cached_services |->
             IF "cached_services" \in DOMAIN ts[h]
             THEN Range(ts[h].cached_services)
             ELSE {}]]

\* ------------------------------------------------------------------------
\* Claims about get_and_cache_availability_all
\* ------------------------------------------------------------------------

\* C1: after a call on torrents whose cached_services start empty, each
\* hash's cached_services holds exactly the providers whose response has a
\* record of that hash matching the request (the union over the providers),
\* and a hash no provider reports keeps its cached flag.
C1_CachedServicesIsUnion ==
    (pc = "done" /\ services # << >> /\ StartsEmpty(torrents0)) =>
        \A h \in DOMAIN torrents :
            /\ Range(torrents[h].cached_services) =
                   { s \in Range(services) : Reports(s, h, request) }
            /\ (\A s \in Range(services) : ~Reports(s, h, request)) =>
                   CachedFlag(torrents[h]) = CachedFlag(torrents0[h])
            /\ (\E s \in Range(services) : Reports(s, h, request)) =>
                   CachedFlag(torrents[h]) = "True"

\* C1 witness: a call has returned with h1 reported by realdebrid alone while
\* alldebrid answered with records of other hashes only, and h2 by nobody.
C1_Witness ==
    /\ pc = "done"
    /\ StartsEmpty(torrents0)
    /\ debrid_configs = << "realdebrid", "torrent", "alldebrid" >>
    /\ torrents["h1"].cached_services = << "realdebrid" >>
    /\ response["alldebrid"].availability # << >>
    /\ torrents["h2"].cached_services = << >>
    /\ CachedFlag(torrents["h2"]) = "absent"

\* C2 (as claimed): the final state of every torrent is the same for every
\* permutation of the provider list.
C2_AnyProviderOrder ==
    pc = "done" =>
        \A p \in IndexPermutations(Len(services)) :
            LET ts == MergeAll(torrents0, Permuted(services, p), request)
            IN  /\ CachedView(ts) = CachedView(torrents)
                /\ \A h \in DOMAIN torrents :
                       /\ ts[h].fileIndex = torrents[h].fileIndex
                       /\ ts[h].title = torrents[h].title
                       /\ ts[h].size = torrents[h].size
                       /\ ts[h].parsed = torrents[h].parsed

\* C2 (amended): whatever the order in which the provider calls complete, the
\* call leaves the torrents that merging the responses in the configured
\* provider order gives; and the cached flag and the set of cached_services
\* are the same for every permutation of the provider list.
C2_ArrivalOrderIndependent ==
    pc = "done" =>
        /\ torrents = MergeAll(torrents0, services, request)
        /\ \A p \in IndexPermutations(Len(services)) :
               CachedView(MergeAll(torrents0, Permuted(services, p), request))
                   = CachedView(torrents)

\* C2 witness: the second provider's call completed before the first one's,
\* and both reported h1.
C2_Witness ==
    /\ pc = "done"
    /\ arrival = << 2, 1 >>
    /\ services = << "realdebrid", "alldebrid" >>
    /\ torrents["h1"].cached_services = << "realdebrid", "alldebrid" >>
    /\ response["realdebrid"] # response["alldebrid"]

\* The records of the running call merged so far: those before position (i, j).
MergedSoFar ==
    IF pc \notin {"merge", "done"}
    THEN {}
    ELSE { << k, n >> \in (1..Len(results)) \X (1..MaxFiles) :
              /\ n <= Len(results[k].availability)
              /\ k < i \/ (k = i /\ n < j) }

\* A record merged so far matched hash h and carried a non-None `key`.
SetByRecord(h, key) ==
    \E pos \in MergedSoFar :
        LET file == results[pos[1]].availability[pos[2]]
        IN  /\ file.info_hash = h
            /\ MatchesRequest(file, request)
            /\ file[key] # NULL

\* C3 (as claimed): once a matching record has set fileIndex, title or size,
\* no record merged later in the call overwrites it.
C3_FirstNonNullWins ==
    [][\A h \in DOMAIN torrents :
          (pc = "merge" /\ pc' = "merge") =>
              /\ SetByRecord(h, "index") => torrents'[h].fileIndex = torrents[h].fileIndex
              /\ SetByRecord(h, "title") => torrents'[h].title = torrents[h].title
              /\ SetByRecord(h, "size") => torrents'[h].size = torrents[h].size]_vars

NoDuplicates(list) ==
    \A a, b \in 1..Len(list) : list[a] = list[b] => a = b

RECURSIVE Dedup(_)
Dedup(list) ==
    IF list = << >>
    THEN << >>
    ELSE LET front == Dedup(SubSeq(list, 1, Len(list) - 1))
         IN  IF Contains(front, list[Len(list)])
             THEN front
             ELSE Append(front, list[Len(list)])

\* C4: no provider is ever twice in a cached_services list; a call that
\* repeats the call before it (same torrents, same responses, same request)
\* leaves the torrents as that call left them; and a provider listed twice,
\* whose response is so merged twice, leaves what merging it once leaves.
C4_MergeIdempotent ==
    /\ \A h \in DOMAIN torrents :
           "cached_services" \in DOMAIN torrents[h] =>
               NoDuplicates(torrents[h].cached_services)
    /\ (pc = "done" /\ prev_request = request) => torrents = torrents0
    /\ pc = "done" => torrents = MergeAll(torrents0, Dedup(services), request)

\* C4 witness: a second call with the arguments of the first has returned,
\* on a service listed twice that reports h1.
C4_Witness ==
    /\ pc = "done"
    /\ prev_request = request
    /\ services = << "realdebrid", "realdebrid" >>
    /\ torrents["h1"].cached_services = << "realdebrid" >>
    /\ torrents["h1"].fileIndex = "1"

NotRaising(service_name) == ~response[service_name].raises

\* C5: when a provider's call raises, the call still returns, every other
\* provider's result is its own response, and the torrents are those that
\* merging the other providers alone gives.
C5_FailureIsolated ==
    /\ (pc \in {"merge", "done"}) =>
           \A k \in 1..Len(results) :
               response[services[k]].raises => results[k].availability = << >>
    /\ (pc = "merge" /\ i = 1 /\ j = 1) =>
           \A k \in 1..Len(results) :
               results[k] = CheckServiceResult(services[k])
    /\ pc = "done" =>
           torrents = MergeAll(torrents0, SelectSeq(services, NotRaising), request)
               \/ (SelectSeq(services, NotRaising) = << >>
                   /\ torrents = InitCachedServices(torrents0))

\* C5 witness: realdebrid's call raised, alldebrid's record of h1 is merged
\* and the call has returned.
C5_Witness ==
    /\ pc = "done"
    /\ services = << "realdebrid", "alldebrid" >>
    /\ response["realdebrid"].raises
    /\ torrents["h1"].cached_services = << "alldebrid" >>
    /\ torrents["h1"].fileIndex = "0"

\* The step merges record j of result i, which matches hash h.
MergesRecordOf(h) ==
    /\ pc = "merge"
    /\ i <= Len(results)
    /\ j <= Len(results[i].availability)
    /\ j' = j + 1
    /\ results[i].availability[j].info_hash = h
    /\ MatchesRequest(results[i].availability[j], request)

\* C6: merging a matching record whose parsed is not None makes the
\* torrent's parsed the record's, with the torrent's own quality kept when
\* the record's is None and the torrent's is not; a record whose parsed is
\* None leaves the torrent's parsed as it is.
C6_ParsedReplacedKeepingQuality ==
    [][\A h \in DOMAIN torrents :
          MergesRecordOf(h) =>
              LET theirs == results[i].availability[j].parsed
                  mine == torrents[h].parsed
              IN  IF theirs = NoParsed
                  THEN torrents'[h].parsed = mine
                  ELSE /\ torrents'[h].parsed.resolution = theirs.resolution
                       /\ torrents'[h].parsed.quality =
                              IF theirs.quality = NULL /\ mine.quality # NULL
                              THEN mine.quality
                              ELSE theirs.quality]_vars

\* C6 witness: h1, whose quality was HDTV, has taken the parsed of a record
\* without a quality and kept HDTV.
C6_Witness ==
    /\ pc = "merge"
    /\ torrents["h1"].parsed = [quality |-> "HDTV", resolution |-> "1080p"]

\* ------------------------------------------------------------------------
\* Playback endpoints and the download_links_cache table
\* ------------------------------------------------------------------------

\* How often the clock advances in a run.
MaxTicks == 1

\* A download_links_cache row is served while timestamp + 3600 >= now.
TTL == 3600

\* The clock advances by a whole TTL or by a second more, which puts a row at
\* the ages 0 and 3600 (still served) and 3601 (expired).
ClockSteps == { TTL, TTL + 1 }

\* The links generate_download_link may return.
Urls == { "u1", "u2", "u3" }

\* (season, episode) of a playback request after parse_optional_int.
Episodes ==
    { [season |-> NULL, episode |-> NULL], [season |-> "1", episode |-> "1"] }

InfoHash == "h1"

\* The alias sets a metadata lookup finds: none, or some.
AliasSets == { "{}", "found" }

\* The service path segments tried: two known providers and a segment that
\* is none (an info hash of an old-format URL).
ServiceSegments == { "realdebrid", "alldebrid", "0123abcd" }

\* comet.core.models.VALID_DEBRID_SERVICES
VALID_DEBRID_SERVICES == { "realdebrid", "alldebrid" }

\* The config config_check returns: realdebrid with its key, so that a
\* request for alldebrid finds no key.
Configs ==
    { [debridConfigs |-> << [service |-> "realdebrid", apiKey |-> "k1"] >>,
       debridService |-> "realdebrid", debridApiKey |-> "k1"] }

\* settings.DATABASE_TYPE
DatabaseTypes == { "sqlite", "postgresql" }

get_api_key_for_service(config, service) ==
    LET found == { k \in 1..Len(config.debridConfigs) :
                      config.debridConfigs[k].service = service }
    IN  IF found # {}
        THEN config.debridConfigs[CHOOSE k \in found : \A m \in found : k <= m].apiKey
        ELSE IF config.debridService = service
             THEN config.debridApiKey
             ELSE ""

\* The api key playback_legacy uses: the first debridConfigs entry's, or the
\* legacy debridApiKey.
LegacyApiKey(config) ==
    IF config.debridConfigs # << >>
    THEN config.debridConfigs[1].apiKey
    ELSE config.debridApiKey

\* Mutant of RowServes: the SELECT without its timestamp condition.
RowServesAnyAge(row, q) ==
    /\ row.debrid_key = q.api_key
    /\ row.info_hash = InfoHash
    /\ row.season = q.season
    /\ row.episode = q.episode

\* The WHERE clause of the cache SELECT: the key matches (None matching None)
\* and the row is not older than the TTL.
RowServes(row, q) ==
    /\ row.debrid_key = q.api_key
    /\ row.info_hash = InfoHash
    /\ row.season = q.season
    /\ row.episode = q.episode
    /\ row.timestamp + TTL >= now

\* The table keeps at most one row per (debrid_key, info_hash, season,
\* episode), a None season or episode being a key value like any other: a row
\* conflicts with a stored row of its key.
Conflicts(table, row) ==
    \E old \in table :
        /\ old.debrid_key = row.debrid_key
        /\ old.info_hash = row.info_hash
        /\ old.season = row.season
        /\ old.episode = row.episode

\* Mutant of AfterInsert: INSERT OR REPLACE.
AfterInsertReplace(table, row, database_type) ==
    [table |-> { old \in table : ~Conflicts({old}, row) } \cup {row},
     raised |-> FALSE]

\* Mutant of AfterInsert: a plain INSERT, which raises on a conflict.
AfterInsertPlain(table, row, database_type) ==
    [table |-> IF Conflicts(table, row) THEN table ELSE table \cup {row},
     raised |-> Conflicts(table, row)]

\* The statement is INSERT OR IGNORE on sqlite and INSERT ... ON CONFLICT DO
\* NOTHING on postgresql: the table after it, and whether it raised.
AfterInsert(table, row, database_type) ==
    [table |-> IF Conflicts(table, row) THEN table ELSE table \cup {row},
     raised |-> Conflicts(table, row)
                    /\ database_type \notin { "sqlite", "postgresql" }]

\* Mutant of PcAfterLookup: the cached link is not used.
PcAfterLookupIgnoresLink(download_url) == "torrent"

\* `if download_url is None:` after the cache lookup.
PcAfterLookup(download_url) ==
    IF download_url = NULL THEN "torrent" ELSE "respond"

\* Mutant of PcAfterGenerate: the missing link is not tested.
PcAfterGenerateUntested(download_url) == "insert"

\* `if not download_url: return FileResponse(uncached.mp4)`
PcAfterGenerate(download_url) ==
    IF download_url = NULL THEN "done" ELSE "insert"

Uncached == [kind |-> "uncached", url |-> NULL]

Raised == [kind |-> "error", url |-> NULL]

InitPlayback ==
    /\ download_links_cache = {}
    /\ now = 0
    /\ ticks = 0
    /\ reqs = [r \in RequestSlots |-> IdleRequest]

\* The aggregation at rest, for the specification of the playback endpoints.
AggQuiet ==
    /\ debrid_configs = << >>
    /\ response = [s \in ServiceNames |-> Silent]
    /\ torrents = << >>
    /\ torrents0 = << >>
    /\ pc = "idle"
    /\ request = NoRequest
    /\ prev_request = NoRequest
    /\ results = << >>
    /\ pending = {}
    /\ arrival = << >>
    /\ i = 1
    /\ j = 1
    /\ cache_tasks = {}

InitPlay == InitPlayback /\ AggQuiet /\ RankQuiet /\ NormQuiet

Free(r) == reqs[r].pc \in { "idle", "done" }

\* playback_with_service with a service segment that is no known provider:
\* the call of playback_legacy passes seven positional arguments and
\* torrent_name again by keyword, which raises TypeError.
StartInvalidService(r, service) ==
    /\ Free(r)
    /\ service \notin VALID_DEBRID_SERVICES
    /\ reqs' = [reqs EXCEPT ![r] =
                   [IdleRequest EXCEPT !.pc = "done",
                                       !.outcome = Raised]]
    /\ UNCHANGED << normVars, rankVars, aggVars, download_links_cache, now, ticks >>

\* playback_with_service when the config holds no api key for the service.
StartNoApiKey(r, service, config, ep) ==
    /\ Free(r)
    /\ service \in VALID_DEBRID_SERVICES
    /\ get_api_key_for_service(config, service) = ""
    /\ reqs' = [reqs EXCEPT ![r] =
                   [IdleRequest EXCEPT !.pc = "done",
                                       !.season = ep.season,
                                       !.episode = ep.episode,
                                       !.outcome = Uncached]]
    /\ UNCHANGED << normVars, rankVars, aggVars, download_links_cache, now, ticks >>

\* playback_with_service up to the cache SELECT.
StartWithService(r, service, config, ep) ==
    /\ Free(r)
    /\ service \in VALID_DEBRID_SERVICES
    /\ get_api_key_for_service(config, service) # ""
    /\ reqs' = [reqs EXCEPT ![r] =
                   [IdleRequest EXCEPT !.pc = "lookup",
                                       !.api_key = get_api_key_for_service(config, service),
                                       !.season = ep.season,
                                       !.episode = ep.episode]]
    /\ UNCHANGED << normVars, rankVars, aggVars, download_links_cache, now, ticks >>

\* playback_legacy up to the cache SELECT.
StartLegacy(r, config, ep) ==
    /\ Free(r)
    /\ reqs' = [reqs EXCEPT ![r] =
                   [IdleRequest EXCEPT !.pc = "lookup",
                                       !.api_key = LegacyApiKey(config),
                                       !.season = ep.season,
                                       !.episode = ep.episode]]
    /\ UNCHANGED << normVars, rankVars, aggVars, download_links_cache, now, ticks >>

\* The cache SELECT returns a row.
LookupHit(r) ==
    /\ reqs[r].pc = "lookup"
    /\ \E row \in download_links_cache :
           /\ RowServes(row, reqs[r])
           /\ reqs' = [reqs EXCEPT ![r].download_url = row.download_url,
                                   ![r].hit = TRUE,
                                   ![r].pc = PcAfterLookup(row.download_url)]
    /\ UNCHANGED << normVars, rankVars, aggVars, download_links_cache, now, ticks >>

\* The cache SELECT returns no row.
LookupMiss(r) ==
    /\ reqs[r].pc = "lookup"
    /\ \A row \in download_links_cache : ~RowServes(row, reqs[r])
    /\ reqs' = [reqs EXCEPT ![r].pc = PcAfterLookup(NULL)]
    /\ UNCHANGED << normVars, rankVars, aggVars, download_links_cache, now, ticks >>

\* The cache SELECT raises: nothing catches it, the request fails.
LookupFails(r) ==
    /\ reqs[r].pc = "lookup"
    /\ reqs' = [reqs EXCEPT ![r].pc = "done", ![r].outcome = Raised]
    /\ UNCHANGED << normVars, rankVars, aggVars, download_links_cache, now, ticks >>

\* The SELECT on torrents: sources and media_id of the hash, if stored.
TorrentLookup(r, has_media_id) ==
    /\ reqs[r].pc = "torrent"
    /\ reqs' = [reqs EXCEPT ![r].pc = IF has_media_id THEN "aliases" ELSE "generate"]
    /\ UNCHANGED << normVars, rankVars, aggVars, download_links_cache, now, ticks >>

\* MetadataScraper.fetch_metadata_and_aliases is best effort: a failure of the
\* lookup yields the empty alias set and is never raised.
fetch_metadata_and_aliases(failure, found) ==
    [aliases |-> IF failure THEN "{}" ELSE found, raised |-> FALSE]

\* Mutant of PcAfterAliases: without aliases the request ends.
PcAfterAliasesNeedsAliases(result) ==
    IF result.raised \/ result.aliases = "{}" THEN "done" ELSE "generate"

\* The await of fetch_metadata_and_aliases stands in no try block: the flow
\* goes on to generate_download_link unless the call raises.
PcAfterAliases(result) ==
    IF result.raised THEN "done" ELSE "generate"

\* fetch_metadata_and_aliases returns, after a lookup that failed or found
\* the alias set `found`.
Aliases(r, failure, found) ==
    /\ reqs[r].pc = "aliases"
    /\ LET result == fetch_metadata_and_aliases(failure, found)
       IN  reqs' = [reqs EXCEPT ![r].pc = PcAfterAliases(result),
                                ![r].aliases = result.aliases,
                                ![r].alias_lookup = IF failure THEN "failed" ELSE "ok",
                                ![r].outcome = IF PcAfterAliases(result) = "done"
                                               THEN Raised
                                               ELSE @]
    /\ UNCHANGED << normVars, rankVars, aggVars, download_links_cache, now, ticks >>

\* generate_download_link, called with the aliases, returns a link or None;
\* on None the request ends with the uncached placeholder. The aliases are
\* not read after the call.
Generate(r, url) ==
    /\ reqs[r].pc = "generate"
    /\ reqs' = [reqs EXCEPT ![r].gen_calls = 1,
                            ![r].aliases = "{}",
                            ![r].alias_lookup = "none",
                            ![r].download_url = url,
                            ![r].pc = PcAfterGenerate(url),
                            ![r].outcome = IF PcAfterGenerate(url) = "done"
                                           THEN Uncached
                                           ELSE @]
    /\ UNCHANGED << normVars, rankVars, aggVars, download_links_cache, now, ticks >>

NewRow(q) ==
    [debrid_key |-> q.api_key, info_hash |-> InfoHash, season |-> q.season,
     episode |-> q.episode, download_url |-> q.download_url, timestamp |-> now]

\* The cache INSERT runs.
Insert(r, database_type) ==
    /\ reqs[r].pc = "insert"
    /\ LET after == AfterInsert(download_links_cache, NewRow(reqs[r]), database_type)
       IN  /\ download_links_cache' = after.table
           /\ reqs' = [reqs EXCEPT ![r].inserts = 1,
                                   ![r].pc = IF after.raised THEN "done" ELSE "respond",
                                   ![r].outcome = IF after.raised THEN Raised ELSE @]
    /\ UNCHANGED << normVars, rankVars, aggVars, now, ticks >>

\* The cache INSERT fails in the store: nothing catches it, the request fails.
InsertFails(r) ==
    /\ reqs[r].pc = "insert"
    /\ reqs' = [reqs EXCEPT ![r].pc = "done", ![r].outcome = Raised]
    /\ UNCHANGED << normVars, rankVars, aggVars, download_links_cache, now, ticks >>

\* The answer: the proxied stream when should_proxy, else a 302 redirect.
\* should_proxy depends on the settings and the config alone.
Respond(r, should_proxy) ==
    /\ reqs[r].pc = "respond"
    /\ reqs' = [reqs EXCEPT ![r].pc = "done",
                            ![r].outcome =
                                [kind |-> IF should_proxy THEN "proxy" ELSE "redirect",
                                 url |-> reqs[r].download_url]]
    /\ UNCHANGED << normVars, rankVars, aggVars, download_links_cache, now, ticks >>

\* Time passes.
Tick(d) ==
    /\ ticks < MaxTicks
    /\ now' = now + d
    /\ ticks' = ticks + 1
    /\ UNCHANGED << normVars, rankVars, aggVars, download_links_cache, reqs >>

NextPlay ==
    \/ \E r \in RequestSlots, service \in ServiceSegments :
           StartInvalidService(r, service)
    \/ \E r \in RequestSlots, service \in ServiceSegments, config \in Configs,
          ep \in Episodes : StartNoApiKey(r, service, config, ep)
    \/ \E r \in RequestSlots, service \in ServiceSegments, config \in Configs,
          ep \in Episodes : StartWithService(r, service, config, ep)
    \/ \E r \in RequestSlots, config \in Configs, ep \in Episodes :
           StartLegacy(r, config, ep)
    \/ \E r \in RequestSlots : LookupHit(r)
    \/ \E r \in RequestSlots : LookupMiss(r)
    \/ \E r \in RequestSlots : LookupFails(r)
    \/ \E r \in RequestSlots, has_media_id \in BOOLEAN : TorrentLookup(r, has_media_id)
    \/ \E r \in RequestSlots, failure \in BOOLEAN, found \in AliasSets :
           Aliases(r, failure, found)
    \/ \E r \in RequestSlots, url \in Urls \cup {NULL} : Generate(r, url)
    \/ \E r \in RequestSlots, database_type \in DatabaseTypes :
           Insert(r, database_type)
    \/ \E r \in RequestSlots : InsertFails(r)
    \/ \E r \in RequestSlots, should_proxy \in BOOLEAN : Respond(r, should_proxy)
    \/ \E d \in ClockSteps : Tick(d)

SpecPlay == InitPlay /\ [][NextPlay]_vars

\* ------------------------------------------------------------------------
\* Claims on the playback endpoints.
\* ------------------------------------------------------------------------

\* The rows of a table stored under the key of request q.
RowsOfKey(table, q) ==
    { row \in table : /\ row.debrid_key = q.api_key
                      /\ row.info_hash = InfoHash
                      /\ row.season = q.season
                      /\ row.episode = q.episode }

\* The request of slot r has run the cache INSERT in this step.
InsertsNow(r) ==
    /\ reqs[r].pc = "insert"
    /\ reqs[r].inserts = 0
    /\ reqs'[r].inserts = 1

\* C7: a request whose cache SELECT found a row found one of its key that is
\* not older than the TTL, goes straight to the answer (never to the torrent
\* SELECT, the alias lookup, generate_download_link or the INSERT) and
\* answers, by redirect or proxy, with the URL of that row.
C7_HitAnswersFromRow ==
    /\ [](\A r \in RequestSlots :
            reqs[r].hit =>
                /\ reqs[r].pc \in { "respond", "done" }
                /\ reqs[r].gen_calls = 0
                /\ reqs[r].inserts = 0
                /\ \E row \in RowsOfKey(download_links_cache, reqs[r]) :
                       row.download_url = reqs[r].download_url
                /\ reqs[r].pc = "done" =>
                       /\ reqs[r].outcome.kind \in { "redirect", "proxy" }
                       /\ reqs[r].outcome.url = reqs[r].download_url)
    /\ [][\A r \in RequestSlots :
            (~reqs[r].hit /\ reqs'[r].hit) =>
                \E row \in RowsOfKey(download_links_cache, reqs[r]) :
                    /\ row.timestamp + TTL >= now
                    /\ reqs'[r].download_url = row.download_url
                    /\ reqs'[r].pc = "respond"]_vars

\* A request for the key with null season and episode was answered with a
\* redirect to the cached link, at the last second of the row's TTL.
C7_Witness ==
    \E r \in RequestSlots :
        /\ reqs[r].hit
        /\ reqs[r].pc = "done"
        /\ reqs[r].season = NULL
        /\ reqs[r].outcome.kind = "redirect"
        /\ reqs[r].outcome.url \in Urls
        /\ \E row \in RowsOfKey(download_links_cache, reqs[r]) :
               row.timestamp + TTL = now

\* C8: no INSERT raises, and when two requests of one key have both missed
\* the cache and stand at the INSERT with different links, then once the
\* first of them has run it the table holds exactly one row of the key, with
\* one of the two links (a row the second INSERT leaves alone).
C8_OneOfTwoPersists ==
    [][\A a \in RequestSlots :
          InsertsNow(a) =>
              /\ reqs'[a].outcome.kind # "error"
              /\ \A b \in RequestSlots \ {a} :
                     ( /\ reqs[b].pc = "insert"
                       /\ reqs[b].inserts = 0
                       /\ ~reqs[a].hit /\ ~reqs[b].hit
                       /\ reqs[a].api_key = reqs[b].api_key
                       /\ reqs[a].season = reqs[b].season
                       /\ reqs[a].episode = reqs[b].episode
                       /\ reqs[a].download_url # reqs[b].download_url )
                     => /\ Cardinality(RowsOfKey(download_links_cache', reqs[a])) = 1
                        /\ \A row \in RowsOfKey(download_links_cache', reqs[a]) :
                               row.download_url \in { reqs[a].download_url,
                                                      reqs[b].download_url }
      ]_vars

\* C9: download_links_cache holds at most one row per (debrid_key, info_hash,
\* season, episode), None being a key value, and an INSERT for a key that has
\* a row leaves the table as it is; no step changes or removes a row.
C9_OneRowPerKeyFirstWriterWins ==
    /\ [](\A x, y \in download_links_cache :
            ( /\ x.debrid_key = y.debrid_key
              /\ x.info_hash = y.info_hash
              /\ x.season = y.season
              /\ x.episode = y.episode ) => x = y)
    /\ [][ /\ download_links_cache \subseteq download_links_cache'
           /\ \A r \in RequestSlots :
                  ( /\ InsertsNow(r)
                    /\ RowsOfKey(download_links_cache, reqs[r]) # {} )
                  => download_links_cache' = download_links_cache ]_vars

\* A request for the key with null season and episode has run the INSERT
\* with another link than the stored one, and the stored row is the older.
C9_Witness ==
    \E r \in RequestSlots :
        /\ reqs[r].inserts = 1
        /\ reqs[r].season = NULL
        /\ reqs[r].episode = NULL
        /\ reqs[r].pc = "respond"
        /\ \E row \in RowsOfKey(download_links_cache, reqs[r]) :
               /\ row.download_url # reqs[r].download_url
               /\ row.timestamp < now

\* C10: a request for which generate_download_link returned None ends there
\* with the uncached placeholder: it is no error, the INSERT is never run
\* for it, the step leaves download_links_cache alone and no row without a
\* link is ever stored.
C10_NoLinkIsUncached ==
    /\ [](/\ \A r \in RequestSlots :
                ( reqs[r].gen_calls = 1 /\ reqs[r].download_url = NULL ) =>
                    /\ reqs[r].pc = "done"
                    /\ reqs[r].outcome = [kind |-> "uncached", url |-> NULL]
                    /\ reqs[r].inserts = 0
          /\ \A row \in download_links_cache : row.download_url # NULL)
    /\ [][\A r \in RequestSlots :
            ( /\ reqs[r].pc = "generate"
              /\ reqs'[r].gen_calls = 1
              /\ reqs'[r].download_url = NULL )
            => download_links_cache' = download_links_cache]_vars

\* A request missed the cache, got no link and ended with the placeholder
\* while the other request stored a link for the same key.
C10_Witness ==
    \E a, b \in RequestSlots :
        /\ a # b
        /\ reqs[a].gen_calls = 1
        /\ reqs[a].download_url = NULL
        /\ reqs[a].pc = "done"
        /\ reqs[a].outcome.kind = "uncached"
        /\ reqs[b].inserts = 1
        /\ reqs[b].season = reqs[a].season
        /\ RowsOfKey(download_links_cache, reqs[a]) # {}

\* The cache SELECT of the request of slot r has returned in this step.
LookupReturnsNow(r) ==
    /\ reqs[r].pc = "lookup"
    /\ reqs'[r].pc # "lookup"
    /\ reqs'[r].outcome.kind # "error"

\* C11: when the cache SELECT returns and the key has a row younger than
\* 3600 s, the request is a hit answered with a stored link; when every row
\* of the key is older than 3600 s, the request is a miss that enters the
\* provider path, and the table keeps its rows. A request that missed gets
\* no answer before generate_download_link was called.
C11_TTLDecidesHit ==
    /\ [][\A r \in RequestSlots :
            LookupReturnsNow(r) =>
                LET rows == RowsOfKey(download_links_cache, reqs[r])
                IN  /\ (\E row \in rows : now - row.timestamp < TTL) =>
                           /\ reqs'[r].hit
                           /\ reqs'[r].pc = "respond"
                           /\ \E row \in rows :
                                  /\ now - row.timestamp < TTL
                                  /\ reqs'[r].download_url = row.download_url
                    /\ (rows # {} /\ \A row \in rows : now - row.timestamp > TTL) =>
                           /\ ~reqs'[r].hit
                           /\ reqs'[r].pc = "torrent"
                           /\ reqs'[r].gen_calls = 0
                           /\ download_links_cache' = download_links_cache
          ]_vars
    /\ [](\A r \in RequestSlots :
            (~reqs[r].hit /\ reqs[r].pc \in { "insert", "respond" }) =>
                reqs[r].gen_calls = 1)

\* A request was answered from a row, and later another request for the same
\* key has missed on that row, now older than 3600 s and still stored, and
\* stands before generate_download_link.
C11_Witness ==
    \E a, b \in RequestSlots :
        /\ reqs[a].hit
        /\ reqs[a].pc = "done"
        /\ ~reqs[b].hit
        /\ reqs[b].pc = "generate"
        /\ reqs[b].season = reqs[a].season
        /\ \E row \in RowsOfKey(download_links_cache, reqs[b]) :
               /\ now - row.timestamp > TTL
               /\ row.download_url = reqs[a].download_url

C13_ReadFailureIsMiss ==
    [][\A r \in RequestSlots :
          (reqs[r].pc = "lookup" /\ reqs'[r].pc # "lookup") =>
              /\ reqs'[r].outcome.kind # "error"
              /\ reqs'[r].hit \/ reqs'[r].pc = "torrent"
      ]_vars

\* C14: whatever the cache INSERT does, the request leaves it without an
\* error and goes on to answer with the generated link.
C14_WriteFailureDropped ==
    [][\A r \in RequestSlots :
          (reqs[r].pc = "insert" /\ reqs'[r].pc # "insert") =>
              /\ reqs'[r].outcome.kind # "error"
              /\ reqs'[r].pc = "respond"
              /\ reqs'[r].download_url = reqs[r].download_url
      ]_vars

\* ------------------------------------------------------------------------
\* Claims on the aggregation, continued.
\* ------------------------------------------------------------------------

\* The writes a call schedules in the passes before pass k: one for each
\* provider entry whose availability is not empty, with that availability.
ScheduledBefore(k) ==
    { [slot |-> m,
       service_name |-> results[m].service_name,
       availability |-> results[m].availability] :
          m \in { n \in 1..(k - 1) : results[n].availability # << >> } }

\* C15: during the merge the scheduled cache_availability writes are one per
\* provider entry that returned records, none of them over; the call returns
\* as soon as the merge is through, with every write still to run; and a
\* write that runs or fails after the return changes neither the torrents nor
\* the state of the call.
C15_CacheWritesNotAwaited ==
    /\ [](/\ pc = "merge" => cache_tasks = ScheduledBefore(i)
          /\ pc = "done" => cache_tasks \subseteq ScheduledBefore(Len(results) + 1)
          /\ (pc = "merge" /\ i > Len(results)) => ENABLED CallReturns)
    /\ [][/\ (pc = "merge" /\ pc' = "done") =>
                 /\ cache_tasks' = ScheduledBefore(Len(results) + 1)
                 /\ torrents' = torrents
          /\ (pc = "done" /\ cache_tasks' # cache_tasks /\ pc' = "done") =>
                 /\ torrents' = torrents
                 /\ results' = results
         ]_vars

\* The call has returned the merged torrents of two providers that returned
\* records; one of the two writes is over and the other has not run yet.
C15_Witness ==
    /\ pc = "done"
    /\ Cardinality(ScheduledBefore(Len(results) + 1)) = 2
    /\ Cardinality(cache_tasks) = 1
    /\ \E h \in DOMAIN torrents : CachedFlag(torrents[h]) = "True"

\* The service is configured with no provider but "torrent".
OnlyTorrent == Range(debrid_configs) \subseteq { "torrent" }

\* C16: "torrent" is none of the providers the service works with: no
\* availability task and no cache write is made for it, no
\* get_cached_availability is awaited for it and no cached_services list
\* holds it. Configured with "torrent" alone, the service has no task and no
\* lookup under way in any state, and get_and_cache_availability_all returns
\* with the torrents as they were.
C16_TorrentExcluded ==
    /\ [](/\ "torrent" \notin Range(services)
          /\ \A k \in 1..Len(results) : results[k].service_name # "torrent"
          /\ \A task \in cache_tasks : task.service_name # "torrent"
          /\ (pc = "existing" /\ i <= Len(services)) => services[i] # "torrent"
          /\ \A h \in DOMAIN torrents :
                 "cached_services" \in DOMAIN torrents[h] =>
                     "torrent" \notin Range(torrents[h].cached_services)
          /\ OnlyTorrent =>
                 /\ pc \in { "idle", "done", "checked" }
                 /\ pending = {}
                 /\ results = << >>
                 /\ cache_tasks = {})
    /\ [][(OnlyTorrent /\ pc' = "done") => torrents' = torrents]_vars

\* Configured with "torrent" alone, the service has reset the torrents in
\* check_existing_availability_all and then returned from
\* get_and_cache_availability_all.
C16_Witness ==
    /\ debrid_configs = << "torrent" >>
    /\ pc = "done"
    /\ request \in Requests
    /\ torrents = torrents0
    /\ \A h \in DOMAIN torrents : CachedFlag(torrents[h]) = "False"

\* ------------------------------------------------------------------------
\* check_required_languages (ranking.py).  Texts are sequences of characters.
\* ------------------------------------------------------------------------

UpperCase ==
    << "A", "B", "C", "D", "E", "F", "G", "H", "I", "J", "K", "L", "M",
       "N", "O", "P", "Q", "R", "S", "T", "U", "V", "W", "X", "Y", "Z" >>

LowerCase ==
    << "a", "b", "c", "d", "e", "f", "g", "h", "i", "j", "k", "l", "m",
       "n", "o", "p", "q", "r", "s", "t", "u", "v", "w", "x", "y", "z" >>

\* str.lower()
Lower(text) ==
    [k \in DOMAIN text |->
        IF \E n \in DOMAIN UpperCase : UpperCase[n] = text[k]
        THEN LowerCase[CHOOSE n \in DOMAIN UpperCase : UpperCase[n] = text[k]]
        ELSE text[k]]

\* `pattern in text`
IsSubstring(pattern, text) ==
    \E o \in 0..(Len(text) - Len(pattern)) :
        \A k \in 1..Len(pattern) : text[o + k] = pattern[k]

Dot == << "." >>

Dash == << "-" >>

Multi == << "m", "u", "l", "t", "i" >>

French == << "f", "r", "e", "n", "c", "h" >>

English == << "e", "n", "g", "l", "i", "s", "h" >>

German == << "g", "e", "r", "m", "a", "n" >>

Fr == << "f", "r" >>

En == << "e", "n" >>

De == << "d", "e" >>

\* name_to_iso.get(name, name), for four of the entries of name_to_iso (the
\* others map further language names to their codes in the same way).
NameToIso(name) ==
    CASE name = Multi -> Multi
      [] name = English -> En
      [] name = French -> Fr
      [] name = German -> De
      [] OTHER -> name

\* title_patterns.get(name, [])
TitlePatterns(name) ==
    CASE name = Multi ->
             { Dot \o Multi \o Dot, Multi \o Dot, Dot \o Multi \o Dash,
               Dash \o Multi \o Dot, Dash \o Multi \o Dash }
      [] name = French ->
             { Dot \o French \o Dot, French \o Dot, Dot \o French \o Dash,
               Dash \o French \o Dot, Dash \o French \o Dash,
               Dot \o << "v", "f" >> \o Dot,
               Dot \o << "v", "f", "f" >> \o Dot,
               Dot \o << "v", "f", "q" >> \o Dot,
               Dot \o << "v", "f", "2" >> \o Dot,
               Dot \o << "t", "r", "u", "e" >> \o French \o Dot,
               Dot \o << "v", "o", "s", "t", "f", "r" >> \o Dot,
               Dot \o << "s", "u", "b" >> \o French \o Dot,
               Dot \o << "f", "r", "a" >> \o Dot,
               Dash \o << "v", "f" >> \o Dash,
               Dash \o << "v", "f", "f" >> \o Dash,
               Dash \o << "v", "f", "q" >> \o Dash }
      [] OTHER -> {}

\* title_check_patterns
TitleCheckPatterns(req_lower, iso_code) ==
    { Dot \o req_lower \o Dot, Dot \o iso_code \o Dot,
      Dash \o req_lower \o Dash, Dash \o iso_code \o Dash,
      Dot \o req_lower \o Dash, Dash \o req_lower \o Dot }

\* One pass of `for req_lang in required_languages` returns True.
RequiredLanguageFound(req_lang, parsed_lower, title_lower) ==
    LET req_lower == Lower(req_lang)
        iso_code == NameToIso(req_lower)
    IN  \/ \E k \in DOMAIN parsed_lower : parsed_lower[k] = iso_code
        \/ \E pattern \in TitlePatterns(req_lower) :
               IsSubstring(pattern, title_lower)
        \/ \E pattern \in TitleCheckPatterns(req_lower, iso_code) :
               IsSubstring(pattern, title_lower)

check_required_languages(parsed_languages, required_languages, raw_title) ==
    IF required_languages = << >>
    THEN TRUE
    ELSE LET parsed_lower == [k \in DOMAIN parsed_languages |->
                                 Lower(parsed_languages[k])]
             title_lower == Lower(raw_title)
         IN  \E k \in DOMAIN required_languages :
                 RequiredLanguageFound(required_languages[k], parsed_lower,
                                       title_lower)

\* ------------------------------------------------------------------------
\* rank_worker (ranking.py)
\* ------------------------------------------------------------------------

\* The most items the torrents dict of a rank_worker call holds.
MaxCandidates == 3

\* rtn_settings.options["remove_ranks_under"]
RemoveRanksUnder == 10

\* The items rank_worker may be given.  is_fetchable and rank are what
\* check_fetch and get_rank return for the item's parsed data; fails tells
\* whether scoring it raises ("score": check_fetch or get_rank) or building
\* its Torrent does ("torrent").  Between them: two items of one resolution
\* and rank, an uncached one, a big one, one that is not fetchable, one
\* ranked under the threshold, one without the required language.
Candidates ==
    { [info_hash |-> "a", cached |-> TRUE, size |-> 10, resolution |-> "1080p",
       is_fetchable |-> TRUE, rank |-> 50, fails |-> "none",
       languages |-> << Fr >>, title |-> << "a" >>],
      [info_hash |-> "b", cached |-> FALSE, size |-> 10, resolution |-> "1080p",
       is_fetchable |-> TRUE, rank |-> 50, fails |-> "none",
       languages |-> << >>, title |-> << "b", ".", "F", "R", "E", "N", "C", "H", "." >>],
      [info_hash |-> "c", cached |-> TRUE, size |-> 20, resolution |-> "1080p",
       is_fetchable |-> FALSE, rank |-> 60, fails |-> "none",
       languages |-> << Fr >>, title |-> << "c" >>],
      [info_hash |-> "d", cached |-> TRUE, size |-> 10, resolution |-> "720p",
       is_fetchable |-> TRUE, rank |-> 5, fails |-> "none",
       languages |-> << En >>, title |-> << "d" >>],
      [info_hash |-> "e", cached |-> FALSE, size |-> 10, resolution |-> "1080p",
       is_fetchable |-> TRUE, rank |-> 40, fails |-> "torrent",
       languages |-> << Fr >>, title |-> << "e" >>],
      [info_hash |-> "f", cached |-> TRUE, size |-> 10, resolution |-> "2160p",
       is_fetchable |-> TRUE, rank |-> 30, fails |-> "score",
       languages |-> << Fr >>, title |-> << "f" >>] }

\* The torrents dicts: up to MaxCandidates items, no info hash twice.
CandidateLists ==
    UNION { { a \in [1..n -> Candidates] : \A x, y \in 1..n : a[x] = a[y] => x = y } :
              n \in 0..MaxCandidates }

\* The other arguments of rank_worker.
Policies ==
    [debrid_service : { "realdebrid", "torrent" },
     max_results_per_resolution : { 0, 1, 2 },
     max_size : { 0, 15 },
     cached_only : BOOLEAN,
     remove_trash : BOOLEAN,
     required_languages : { << >>, << French >> }]

\* Resolution.value of RTN: the order of the resolution buckets.
ResolutionValue(resolution) ==
    CASE resolution = "2160p" -> 7
      [] resolution = "1440p" -> 6
      [] resolution = "1080p" -> 5
      [] resolution = "720p" -> 4
      [] resolution = "480p" -> 3
      [] resolution = "360p" -> 2
      [] OTHER -> 1

\* Mutant of IsTrash: trash is kept when only cached torrents are asked for.
IsTrashUnlessCachedOnly(c, args) ==
    /\ args.remove_trash
    /\ ~args.cached_only
    /\ ~c.is_fetchable \/ c.rank < RemoveRanksUnder

\* `if remove_trash: if not is_fetchable or rank < remove_ranks_under`
IsTrash(c, args) ==
    /\ args.remove_trash
    /\ ~c.is_fetchable \/ c.rank < RemoveRanksUnder

\* What one pass of `for info_hash, torrent in torrents.items()` does with
\* the item: it is skipped by a `continue` or by the caught exception of
\* Torrent(...), it is added to ranked_torrents, or check_fetch or get_rank
\* raises, which nothing catches.
Verdict(c, args) ==
    IF args.cached_only /\ args.debrid_service # "torrent" /\ ~c.cached
    THEN "skip"
    ELSE IF args.max_size # 0 /\ c.size > args.max_size
    THEN "skip"
    ELSE IF /\ args.required_languages # << >>
            /\ ~check_required_languages(c.languages, args.required_languages,
                                         c.title)
    THEN "skip"
    ELSE IF c.fails = "score"
    THEN "raise"
    ELSE IF IsTrash(c, args)
    THEN "skip"
    ELSE IF c.fails = "torrent"
    THEN "skip"
    ELSE "add"

\* Torrent(infohash=..., data=parsed, fetch=is_fetchable, rank=rank)
RankedTorrent(c) ==
    [infohash |-> c.info_hash, resolution |-> c.resolution,
     fetch |-> c.is_fetchable, rank |-> c.rank]

\* The orders in which iterating a set may yield its elements.
IterationOrders(set) ==
    { order \in [1..Cardinality(set) -> set] :
        \A x, y \in DOMAIN order : order[x] = order[y] => x = y }

\* The sort key of sort_torrents: resolution, then rank.
KeyLess(x, y) ==
    \/ ResolutionValue(x.resolution) < ResolutionValue(y.resolution)
    \/ /\ ResolutionValue(x.resolution) = ResolutionValue(y.resolution)
       /\ x.rank < y.rank

\* sorted(list, key=..., reverse=True): descending by key, elements of equal
\* key in the order they have in list.
SortedDescending(list) ==
    CHOOSE sorted \in IterationOrders(Range(list)) :
        \A m, n \in DOMAIN sorted :
            m < n =>
                /\ ~KeyLess(sorted[m], sorted[n])
                /\ ~KeyLess(sorted[n], sorted[m]) =>
                       \E x, y \in DOMAIN list :
                           x < y /\ list[x] = sorted[m] /\ list[y] = sorted[n]

\* The element at k is among the first bucket_limit of its resolution.
WithinLimit(sorted, k, bucket_limit) ==
    Cardinality({ m \in 1..(k - 1) :
                    sorted[m].resolution = sorted[k].resolution }) < bucket_limit

\* The elements of sorted from k on that are within the limit, in their order.
RECURSIVE KeepFrom(_, _, _)
KeepFrom(sorted, k, bucket_limit) ==
    IF k > Len(sorted)
    THEN << >>
    ELSE IF WithinLimit(sorted, k, bucket_limit)
         THEN << sorted[k] >> \o KeepFrom(sorted, k + 1, bucket_limit)
         ELSE KeepFrom(sorted, k + 1, bucket_limit)

\* sort_torrents of RTN on a set iterated in the given order: sorted by
\* resolution and rank, descending; with a bucket limit above 0, the first
\* bucket_limit of each resolution.
sort_torrents(order, bucket_limit) ==
    IF bucket_limit > 0
    THEN KeepFrom(SortedDescending(order), 1, bucket_limit)
    ELSE SortedDescending(order)

InitRankWorker ==
    /\ rank_torrents \in CandidateLists
    /\ policy \in Policies
    /\ rank_pc = "loop"
    /\ rank_k = 1
    /\ ranked_torrents = {}
    /\ rank_out = << >>
    /\ lang_call = "none"
    /\ lang_result = "none"

InitRank == InitRankWorker /\ AggQuiet /\ InitPlayback /\ NormQuiet

\* A pass of the loop that leaves the item out.
RankSkip ==
    /\ rank_pc = "loop"
    /\ rank_k <= Len(rank_torrents)
    /\ Verdict(rank_torrents[rank_k], policy) = "skip"
    /\ rank_k' = rank_k + 1
    /\ UNCHANGED << normVars, aggVars, playVars, rank_torrents, policy, rank_pc,
                    ranked_torrents, rank_out, lang_call, lang_result >>

\* A pass of the loop that adds the item's Torrent to ranked_torrents.
RankAdd ==
    /\ rank_pc = "loop"
    /\ rank_k <= Len(rank_torrents)
    /\ Verdict(rank_torrents[rank_k], policy) = "add"
    /\ ranked_torrents' =
           ranked_torrents \cup { RankedTorrent(rank_torrents[rank_k]) }
    /\ rank_k' = rank_k + 1
    /\ UNCHANGED << normVars, aggVars, playVars, rank_torrents, policy, rank_pc,
                    rank_out, lang_call, lang_result >>

\* A pass of the loop in which check_fetch or get_rank raises: rank_worker
\* ends with the exception.
RankRaises ==
    /\ rank_pc = "loop"
    /\ rank_k <= Len(rank_torrents)
    /\ Verdict(rank_torrents[rank_k], policy) = "raise"
    /\ rank_pc' = "raised"
    /\ UNCHANGED << normVars, aggVars, playVars, rank_torrents, policy, rank_k,
                    ranked_torrents, rank_out, lang_call, lang_result >>

\* Mutant of RankReturns: sort_torrents is called without the bucket limit.
RankReturnsUncapped(order) ==
    /\ rank_pc = "loop"
    /\ rank_k > Len(rank_torrents)
    /\ rank_out' = sort_torrents(order, 0)
    /\ rank_pc' = "returned"
    /\ UNCHANGED << normVars, aggVars, playVars, rank_torrents, policy, rank_k,
                    ranked_torrents, lang_call, lang_result >>

\* `return sort_torrents(ranked_torrents, max_results_per_resolution)`, the
\* set being iterated in some order.
RankReturns(order) ==
    /\ rank_pc = "loop"
    /\ rank_k > Len(rank_torrents)
    /\ rank_out' = sort_torrents(order, policy.max_results_per_resolution)
    /\ rank_pc' = "returned"
    /\ UNCHANGED << normVars, aggVars, playVars, rank_torrents, policy, rank_k,
                    ranked_torrents, lang_call, lang_result >>

NextRank ==
    \/ RankSkip
    \/ RankAdd
    \/ RankRaises
    \/ \E order \in IterationOrders(ranked_torrents) : RankReturns(order)

SpecRank == InitRank /\ [][NextRank]_vars

\* ------------------------------------------------------------------------
\* Claims on rank_worker.
\* ------------------------------------------------------------------------

\* The item passes the filters that come before scoring, and neither scoring
\* it nor building its Torrent raises.
PassesOtherFilters(c, args) ==
    /\ ~(args.cached_only /\ args.debrid_service # "torrent" /\ ~c.cached)
    /\ ~(args.max_size # 0 /\ c.size > args.max_size)
    /\ check_required_languages(c.languages, args.required_languages, c.title)
    /\ c.fails = "none"

\* The info hashes of the output.
OutputHashes == { rank_out[k].infohash : k \in DOMAIN rank_out }

\* C17: with remove_trash, ranked_torrents and the output hold fetchable
\* items of rank remove_ranks_under or more only, whatever cached_only and
\* the items' cached flags are; without remove_trash every item that passes
\* the other filters is in ranked_torrents, and in the output when there is
\* no bucket limit, whatever its rank and fetchability.
C17_TrashRemovedRegardlessOfCachedOnly ==
    /\ policy.remove_trash =>
           \A t \in ranked_torrents \cup Range(rank_out) :
               t.fetch /\ t.rank >= RemoveRanksUnder
    /\ (rank_pc = "returned" /\ ~policy.remove_trash) =>
           \A k \in DOMAIN rank_torrents :
               PassesOtherFilters(rank_torrents[k], policy) =>
                   /\ RankedTorrent(rank_torrents[k]) \in ranked_torrents
                   /\ policy.max_results_per_resolution = 0 =>
                          rank_torrents[k].info_hash \in OutputHashes

\* rank_worker has returned a result for cached_only and remove_trash from
\* which a cached item of a rank under the threshold, which passes the other
\* filters, is missing.
C17_Witness ==
    /\ rank_pc = "returned"
    /\ policy.remove_trash
    /\ policy.cached_only
    /\ policy.debrid_service # "torrent"
    /\ rank_out # << >>
    /\ \E k \in DOMAIN rank_torrents :
           /\ rank_torrents[k].cached
           /\ rank_torrents[k].rank < RemoveRanksUnder
           /\ PassesOtherFilters(rank_torrents[k], policy)
           /\ rank_torrents[k].info_hash \notin OutputHashes

\* The resolutions of the items.
Resolutions == { c.resolution : c \in Candidates }

\* The positions of the output that hold an item of the resolution.
OutputOf(resolution) ==
    { k \in DOMAIN rank_out : rank_out[k].resolution = resolution }

\* The items of ranked_torrents of the resolution.
SurvivorsOf(resolution) ==
    { t \in ranked_torrents : t.resolution = resolution }

\* The lesser of two numbers.
Min(x, y) == IF x <= y THEN x ELSE y

\* C18: the output holds items of ranked_torrents, none twice; the items of
\* one resolution stand in it by descending rank; with a bucket limit N > 0
\* they are N of the resolution's survivors, or all of them when there are
\* fewer, and no survivor left out outranks one that is kept; with the limit
\* 0 every survivor is in the output.
C18_TopNPerBucket ==
    rank_pc = "returned" =>
        /\ Range(rank_out) \subseteq ranked_torrents
        /\ \A m, n \in DOMAIN rank_out : rank_out[m] = rank_out[n] => m = n
        /\ \A b \in Resolutions :
               /\ \A m, n \in OutputOf(b) :
                      m < n => rank_out[m].rank >= rank_out[n].rank
               /\ \A t \in SurvivorsOf(b) \ Range(rank_out) :
                      \A k \in OutputOf(b) : t.rank <= rank_out[k].rank
               /\ Cardinality(OutputOf(b)) =
                      IF policy.max_results_per_resolution > 0
                      THEN Min(policy.max_results_per_resolution,
                               Cardinality(SurvivorsOf(b)))
                      ELSE Cardinality(SurvivorsOf(b))

\* Three items of 1080p with the ranks 60, 50 and 50 survived, the bucket
\* limit is 2, and the output holds the item of rank 60 before one of rank 50.
C18_Witness ==
    /\ rank_pc = "returned"
    /\ policy.max_results_per_resolution = 2
    /\ Cardinality(SurvivorsOf("1080p")) = 3
    /\ Len(rank_out) = 2
    /\ rank_out[1].rank = 60
    /\ rank_out[2].rank = 50

\* The place of the item of the info hash in `torrents.items()`.
InsertedAt(infohash) ==
    CHOOSE k \in DOMAIN rank_torrents : rank_torrents[k].info_hash = infohash

\* Two ranked items of one resolution and one rank.
Tied(x, y) == x.resolution = y.resolution /\ x.rank = y.rank

\* C19: items of one resolution and equal rank stand in the output in the
\* order in which the loop met them, and when the bucket limit leaves one of
\* them out, the ones kept were met before it.
C19_TiesInInsertionOrder ==
    rank_pc = "returned" =>
        /\ \A m, n \in DOMAIN rank_out :
               (m < n /\ Tied(rank_out[m], rank_out[n])) =>
                   InsertedAt(rank_out[m].infohash)
                       < InsertedAt(rank_out[n].infohash)
        /\ \A t \in ranked_torrents \ Range(rank_out) :
               \A k \in DOMAIN rank_out :
                   Tied(rank_out[k], t) =>
                       InsertedAt(rank_out[k].infohash) < InsertedAt(t.infohash)

\* ------------------------------------------------------------------------
\* check_required_languages called on its own.
\* ------------------------------------------------------------------------

\* Lists of parsed languages: none, codes, a code in capitals, a language
\* name.
ParsedLanguageLists ==
    { << >>, << Fr >>, << En >>, << << "F", "R" >> >>, << French >>,
      << En, De >> }

\* Lists of required languages: none, names, a capitalised name, a code.
RequiredLanguageLists ==
    { << >>, << French >>, << << "F", "r", "e", "n", "c", "h" >> >>, << Fr >>,
      << German >>, << Multi >>, << English, French >> }

\* Raw titles: "", "Movie.2020.FRENCH.1080p", "Movie.2020.1080p",
\* "Movie.FR-GRP", "Movie.VFF.x", "Refrench.x", "Movie.MULTI.x", "Movie-de-x",
\* "Movie.en.x".
RawTitles ==
    {
      << >>,
      << "M", "o", "v", "i", "e", ".", "2", "0", "2", "0", ".",
         "F", "R", "E", "N", "C", "H", ".", "1", "0", "8", "0",
         "p" >>,
      << "M", "o", "v", "i", "e", ".", "2", "0", "2", "0", ".",
         "1", "0", "8", "0", "p" >>,
      << "M", "o", "v", "i", "e", ".", "F", "R", "-", "G", "R",
         "P" >>,
      << "M", "o", "v", "i", "e", ".", "V", "F", "F", ".", "x" >>,
      << "R", "e", "f", "r", "e", "n", "c", "h", ".", "x" >>,
      << "M", "o", "v", "i", "e", ".", "M", "U", "L", "T", "I",
         ".", "x" >>,
      << "M", "o", "v", "i", "e", "-", "d", "e", "-", "x" >>,
      << "M", "o", "v", "i", "e", ".", "e", "n", ".", "x" >> }

\* The calls of check_required_languages.
LangCalls ==
    [parsed_languages : ParsedLanguageLists,
     required_languages : RequiredLanguageLists,
     raw_title : RawTitles]

InitLang ==
    /\ lang_call \in LangCalls
    /\ lang_result = "none"
    /\ rank_torrents = << >>
    /\ policy = "none"
    /\ rank_pc = "idle"
    /\ rank_k = 1
    /\ ranked_torrents = {}
    /\ rank_out = << >>
    /\ AggQuiet
    /\ PlayQuiet
    /\ NormQuiet

\* The call returns.
CheckRequiredLanguages ==
    /\ lang_result = "none"
    /\ lang_result' =
           IF check_required_languages(lang_call.parsed_languages,
                                       lang_call.required_languages,
                                       lang_call.raw_title)
           THEN "True"
           ELSE "False"
    /\ UNCHANGED << normVars, aggVars, playVars, rank_torrents, policy, rank_pc, rank_k,
                    ranked_torrents, rank_out, lang_call >>

NextLang == CheckRequiredLanguages

SpecLang == InitLang /\ [][NextLang]_vars

\* A language name or code as the claim compares it: lower-cased, names
\* replaced by their codes.
AsCode(language) == NameToIso(Lower(language))

\* The names under which a title may carry the required language: its name,
\* its code, and for French the release tags that stand for it.
TitleNamesOf(language) ==
    { Lower(language), AsCode(language) }
        \cup IF AsCode(language) = Fr
             THEN { << "v", "f" >>, << "v", "f", "f" >>, << "v", "f", "q" >>,
                    << "v", "f", "2" >>, << "t", "r", "u", "e" >> \o French,
                    << "v", "o", "s", "t", "f", "r" >>,
                    << "s", "u", "b" >> \o French, << "f", "r", "a" >> }
             ELSE {}

\* The title holds the name between two delimiters, each "." or "-".
DelimitedIn(name, title) ==
    \E left, right \in { Dot, Dash } :
        IsSubstring(left \o name \o right, Lower(title))

\* The result the call should have: no language is required, or a parsed
\* language is a required one once both are lower-cased codes, or the title
\* holds a name of a required language between delimiters.
ShouldPass(call) ==
    \/ call.required_languages = << >>
    \/ \E m \in DOMAIN call.parsed_languages :
           \E n \in DOMAIN call.required_languages :
               AsCode(call.parsed_languages[m])
                   = AsCode(call.required_languages[n])
    \/ \E n \in DOMAIN call.required_languages :
           \E name \in TitleNamesOf(call.required_languages[n]) :
               DelimitedIn(name, call.raw_title)

\* C20: check_required_languages returns True exactly when no language is
\* required, or a parsed language is among the required ones (both sides
\* lower-cased and mapped to codes), or the lower-cased title holds a
\* required language's name, alias or code between "." or "-" delimiters.
C20_LanguageFilterExact ==
    lang_result # "none" =>
        (lang_result = "True" <=> ShouldPass(lang_call))

\* ------------------------------------------------------------------------
\* Claims on failures in rank_worker and check_existing_availability_all.
\* ------------------------------------------------------------------------

\* The item passes every filter of the loop.
Survives(c, args) ==
    /\ ~(args.cached_only /\ args.debrid_service # "torrent" /\ ~c.cached)
    /\ ~(args.max_size # 0 /\ c.size > args.max_size)
    /\ check_required_languages(c.languages, args.required_languages, c.title)
    /\ ~(args.remove_trash /\ (~c.is_fetchable \/ c.rank < RemoveRanksUnder))

\* C21: a failure of check_fetch, of get_rank or of building the Torrent of
\* one item leaves out that item only: rank_worker does not end with the
\* exception, and when it has returned, every item that passes the filters
\* and whose scoring did not fail is in ranked_torrents.
C21_ScoringFailureExcludesOneCandidate ==
    /\ rank_pc # "raised"
    /\ rank_pc = "returned" =>
           \A k \in DOMAIN rank_torrents :
               (Survives(rank_torrents[k], policy)
                    /\ rank_torrents[k].fails = "none") =>
                   \E t \in ranked_torrents :
                       t.infohash = rank_torrents[k].info_hash

\* The row has a file_index that is an integer or None and a parsed text that
\* loads or is None.
WellFormed(row) ==
    /\ row.file_index = NULL \/ IntOf(row.file_index) # "ValueError"
    /\ row.parsed.kind # "malformed"

\* C22: when get_cached_availability has returned the rows of a provider,
\* malformed ones among them or not, the call goes on to the next provider,
\* and every well-formed row of a torrent of the request has been merged:
\* the torrent is cached and lists the provider.
C22_MalformedRowSkippedAlone ==
    [][ \A rows \in RowLists :
            ExistingLookup(rows) =>
                /\ pc' = "existing"
                /\ \A k \in DOMAIN rows :
                       (WellFormed(rows[k])
                            /\ rows[k].info_hash \in DOMAIN torrents) =>
                           /\ CachedFlag(torrents'[rows[k].info_hash]) = "True"
                           /\ \E n \in DOMAIN torrents'[rows[k].info_hash].cached_services :
                                  torrents'[rows[k].info_hash].cached_services[n]
                                      = services[i] ]_vars

\* ------------------------------------------------------------------------
\* Further claims on the playback endpoints.
\* ------------------------------------------------------------------------

\* C23: when a request that missed the cache has got a link from the
\* provider and its INSERT has run, the table holds a row that a SELECT for
\* the same key, made at once, is served from.
C23_MissPopulatesCache ==
    [][ \A r \in RequestSlots :
            (reqs[r].pc = "insert" /\ reqs'[r].pc = "respond") =>
                \E row \in download_links_cache' :
                    /\ row.debrid_key = reqs[r].api_key
                    /\ row.info_hash = InfoHash
                    /\ row.season = reqs[r].season
                    /\ row.episode = reqs[r].episode
                    /\ row.timestamp + TTL >= now' ]_vars

\* C25: a request to playback_with_service whose service segment is no known
\* provider is answered as playback_legacy answers: with a redirect, the
\* proxied stream or the uncached placeholder, never with an error.
C25_UnknownServiceFallsBackToLegacy ==
    [][ \A r \in RequestSlots :
            \A service \in ServiceSegments :
                StartInvalidService(r, service) =>
                    reqs'[r].outcome.kind # "error" ]_vars

\* ------------------------------------------------------------------------
\* Further claims on MultiDebridService.
\* ------------------------------------------------------------------------

\* C24: the availability handed to cache_availability for a provider is the
\* list the provider returned, record for record and field for field, the
\* records of other seasons and episodes included.
C24_RawResponseCached ==
    \A task \in cache_tasks :
        task.availability = response[task.service_name].availability

\* C26: a step of get_and_cache_availability_all writes to the torrents only
\* when no check_service task is in flight, and the merge begins only when
\* every task has completed; from then to the return of the call no task and
\* no cache write runs between two passes of the merge.
C26_MergeAfterAllCalls ==
    [][ /\ torrents' # torrents => pending = {}
        /\ pc' = "merge" => pending' = {}
        /\ (pc = "merge" /\ pc' = "merge") =>
               /\ arrival' = arrival
               /\ cache_tasks \subseteq cache_tasks' ]_vars

\* The merge is at the second provider's result after the second provider's
\* call completed before the first's, and a torrent has been marked cached.
C26_Witness ==
    /\ pc = "merge"
    /\ Len(arrival) = 2
    /\ arrival[1] = 2
    /\ i = 2
    /\ j > 1
    /\ \E h \in DOMAIN torrents : CachedFlag(torrents[h]) = "True"

\* The providers a torrent lists in cached_services, none when it has no
\* such key.
ListedServices(torrent) ==
    IF "cached_services" \in DOMAIN torrent
    THEN { torrent.cached_services[k] : k \in DOMAIN torrent.cached_services }
    ELSE {}

\* C27: at every point of a run of check_existing_availability_all and
\* get_and_cache_availability_all calls, a torrent is cached exactly when its
\* cached_services is not empty, and cached_services names configured
\* providers other than "torrent" only.
C27_CachedIffServices ==
    \A h \in DOMAIN torrents :
        /\ CachedFlag(torrents[h]) = "True" <=> ListedServices(torrents[h]) # {}
        /\ \A name \in ListedServices(torrents[h]) :
               /\ name # "torrent"
               /\ \E k \in DOMAIN debrid_configs : debrid_configs[k] = name

\* get_and_cache_availability_all has returned on torrents that
\* check_existing_availability_all had reset before: one it found cached and
\* one it did not.
C27_Witness ==
    /\ pc = "done"
    /\ \E h \in DOMAIN torrents :
           /\ CachedFlag(torrents0[h]) = "False"
           /\ CachedFlag(torrents[h]) = "True"
           /\ ListedServices(torrents[h]) # {}
    /\ \E h \in DOMAIN torrents :
           /\ CachedFlag(torrents[h]) = "False"
           /\ ListedServices(torrents[h]) = {}

\* The first place of a provider in the configured list.
ConfiguredAt(name) ==
    CHOOSE k \in DOMAIN services :
        services[k] = name /\ \A m \in 1..(k - 1) : services[m] # name

\* The places of the providers whose response has a matching record of h.
ReportersOf(h) ==
    { k \in DOMAIN services : Reports(services[k], h, request) }

\* C28: after a call on torrents whose cached_services start empty, each
\* cached_services names its providers in the order of the configured list,
\* whatever the order in which the provider calls completed, and
\* get_first_available_service gives the earliest configured provider that
\* reported the torrent, None when none did.
C28_ConfiguredOrder ==
    (pc = "done" /\ StartsEmpty(torrents0)) =>
        \A h \in DOMAIN torrents :
            /\ "cached_services" \in DOMAIN torrents[h] =>
                   \A m, n \in DOMAIN torrents[h].cached_services :
                       m < n => ConfiguredAt(torrents[h].cached_services[m])
                                    < ConfiguredAt(torrents[h].cached_services[n])
            /\ get_first_available_service(torrents[h]) =
                   IF ReportersOf(h) = {}
                   THEN NULL
                   ELSE services[CHOOSE k \in ReportersOf(h) :
                                     \A m \in ReportersOf(h) : k <= m]

\* A call has returned whose second provider answered before the first, both
\* reporting h1: h1 lists the first provider first, and h2, which nobody
\* reported, has no first available service.
C28_Witness ==
    /\ pc = "done"
    /\ StartsEmpty(torrents0)
    /\ arrival = << 2, 1 >>
    /\ torrents["h1"].cached_services = << "realdebrid", "alldebrid" >>
    /\ get_first_available_service(torrents["h1"]) = "realdebrid"
    /\ get_first_available_service(torrents["h2"]) = NULL

\* ------------------------------------------------------------------------
\* normalize_debrid_config (config_validation.py)
\* ------------------------------------------------------------------------

\* The most entries a debridConfigs list of an input config holds.
MaxConfigs == 2

\* The entries of a debridConfigs list: a dict with both keys, a dict without
\* apiKey, a DebridConfig object, and a value that is neither (a string).
ConfigEntries ==
    { [kind |-> "dict", service |-> "realdebrid", apiKey |-> "k1"],
      [kind |-> "dict", service |-> "alldebrid"],
      [kind |-> "DebridConfig", service |-> "alldebrid", apiKey |-> "k2"],
      [kind |-> "other"] }

EntryLists == UNION { [1..n -> ConfigEntries] : n \in 0..MaxConfigs }

\* A key of a dict: missing, or present with a value.
Missing == [has |-> FALSE]

Present(value) == [has |-> TRUE, value |-> value]

\* The dict d with the key, when it is present.
WithKey(d, key, option) ==
    IF option.has THEN SetKey(d, key, option.value) ELSE d

\* The config dicts normalize_debrid_config is given: the legacy form (no
\* debridConfigs, or an empty one), the list form, and lists with entries of
\* neither kind, each with and without the legacy keys.
InputConfigs ==
    { WithKey(WithKey(WithKey(<< >>, "debridConfigs", c), "debridService", s),
              "debridApiKey", a) :
        c \in { Missing } \cup { Present(l) : l \in EntryLists },
        s \in { Missing, Present(""), Present("torrent"), Present("realdebrid") },
        a \in { Missing, Present(""), Present("k1") } }

\* d.get(key, default)
Get(d, key, default) == IF key \in DOMAIN d THEN d[key] ELSE default

\* `isinstance(cfg, dict)` or `isinstance(cfg, DebridConfig)`
IsConfigEntry(cfg) == cfg.kind \in { "dict", "DebridConfig" }

\* A dict is appended as it is, a DebridConfig as the dict of its two fields.
NormalizedEntry(cfg) ==
    IF cfg.kind = "DebridConfig"
    THEN [kind |-> "dict", service |-> cfg.service, apiKey |-> cfg.apiKey]
    ELSE cfg

\* normalized_configs after `for cfg in debrid_configs`
NormalizedConfigs(entries) ==
    LET kept == SelectSeq(entries, IsConfigEntry)
    IN  [k \in DOMAIN kept |-> NormalizedEntry(kept[k])]

\* The list branch: debridConfigs is replaced, then the legacy keys are set
\* from the first entry, where a missing key of that entry raises KeyError.
NormalizedFromList(config, normalized_configs) ==
    LET replaced == SetKey(config, "debridConfigs", normalized_configs)
    IN  IF normalized_configs = << >>
        THEN [config |-> replaced, raised |-> FALSE]
        ELSE IF "service" \notin DOMAIN normalized_configs[1]
        THEN [config |-> replaced, raised |-> TRUE]
        ELSE IF "apiKey" \notin DOMAIN normalized_configs[1]
        THEN [config |-> SetKey(replaced, "debridService",
                                normalized_configs[1].service),
              raised |-> TRUE]
        ELSE [config |-> SetKey(SetKey(replaced, "debridService",
                                       normalized_configs[1].service),
                                "debridApiKey", normalized_configs[1].apiKey),
              raised |-> FALSE]

\* The legacy branch: debridConfigs is built from the legacy keys.
NormalizedFromLegacy(config) ==
    LET debrid_service == Get(config, "debridService", "torrent")
        debrid_api_key == Get(config, "debridApiKey", "")
    IN  [config |->
             SetKey(config, "debridConfigs",
                    IF /\ debrid_service # ""
                       /\ debrid_service # "torrent"
                       /\ debrid_api_key # ""
                    THEN << [kind |-> "dict", service |-> debrid_service,
                             apiKey |-> debrid_api_key] >>
                    ELSE << >>),
         raised |-> FALSE]

\* The config dict after the call, and whether the call raised; entries is
\* `config.get("debridConfigs", [])`.
normalize_debrid_config(config) ==
    LET entries == Get(config, "debridConfigs", << >>)
    IN  IF entries # << >>
        THEN NormalizedFromList(config, NormalizedConfigs(entries))
        ELSE NormalizedFromLegacy(config)

InitNorm ==
    /\ norm_config \in InputConfigs
    /\ norm_first = "none"
    /\ norm_pc = "new"
    /\ norm_raised = FALSE
    /\ AggQuiet
    /\ PlayQuiet
    /\ RankQuiet

\* normalize_debrid_config is applied to the config, a first time or, when
\* the first application returned, a second time.
Normalize ==
    /\ norm_pc \in { "new", "once" }
    /\ LET result == normalize_debrid_config(norm_config)
       IN  /\ norm_config' = result.config
           /\ norm_raised' = result.raised
           /\ norm_first' = IF norm_pc = "new" THEN result.config ELSE norm_first
           /\ norm_pc' = IF result.raised
                         THEN "raised"
                         ELSE IF norm_pc = "new" THEN "once" ELSE "twice"
    /\ UNCHANGED << aggVars, playVars, rankVars >>

NextNorm == Normalize

SpecNorm == InitNorm /\ [][NextNorm]_vars

\* The value a config has under a key, Missing when it has none.
KeyOf(config, key) ==
    IF key \in DOMAIN config THEN Present(config[key]) ELSE Missing

\* C29: a second application of normalize_debrid_config leaves debridConfigs,
\* debridService and debridApiKey as the first application left them.
C29_NormalizeIdempotent ==
    norm_pc = "twice" =>
        \A key \in { "debridConfigs", "debridService", "debridApiKey" } :
            KeyOf(norm_config, key) = KeyOf(norm_first, key)

====
